---- MODULE Spec2Model ----
(***************************************************************************)
(* A model of melwallet: the Wallet bookkeeping struct (src/src/lib.rs)    *)
(* and the Signer capability (src/src/signer.rs).                          *)
(*                                                                         *)
(* Maps (BTreeMap, HashMap) are functions whose DOMAIN is the key set.     *)
(* Vectors are sequences.  Bytes are sequences of small naturals.  A       *)
(* TxHash is the sequence of naturals that serialises the transaction      *)
(* without its signatures (a collision-free hash); hashes of transactions  *)
(* outside the model are one-element sequences.                            *)
(***************************************************************************)
EXTENDS Integers, Sequences, FiniteSets, TLC

VARIABLES address, height, confirmed_utxos, pending_outgoing, last

vars == <<address, height, confirmed_utxos, pending_outgoing, last>>

wallet == <<address, height, confirmed_utxos, pending_outgoing>>

---------------------------------------------------------------------------
(* Bounds of the model *)

\* add_coins is only taken while height < MaxHeight
MaxHeight == 10
\* prepare_tx calls are only taken if they return within powers 0..MaxPower
MaxPower == 16

---------------------------------------------------------------------------
(* Value types *)

SelfAddr == "A"
OtherAddr == "B"

Mel == "Mel"
NewCustom == "NewCustom"
Tok == "Tok"

\* The derived Ord of melstructs::Denom: Mel < NewCustom < Custom(_)
DenomRank(d) == CASE d = Mel -> 0 [] d = NewCustom -> 3 [] OTHER -> 4

DenomCode(d) == DenomRank(d)

AddrCode(a) == IF a = SelfAddr THEN 1 ELSE 2

KindCode(k) == IF k = "Normal" THEN 0 ELSE 1

CoinID(h, i) == [txhash |-> h, index |-> i]

CoinData(c, d, v) == [covhash |-> c, denom |-> d, value |-> v, additional_data |-> <<>>]

CoinDataHeight(cd, h) == [coin_data |-> cd, height |-> h]

Max(a, b) == IF a >= b THEN a ELSE b

\* Lexicographic order on byte strings (Ord for TxHash)
RECURSIVE LexLess(_, _)
LexLess(a, b) ==
    IF b = <<>> THEN FALSE
    ELSE IF a = <<>> THEN TRUE
    ELSE IF Head(a) # Head(b) THEN Head(a) < Head(b)
    ELSE LexLess(Tail(a), Tail(b))

\* The derived Ord of CoinID: by txhash, then by index
CoinIDLess(x, y) ==
    IF x.txhash = y.txhash THEN x.index < y.index ELSE LexLess(x.txhash, y.txhash)

\* The keys of a BTreeMap<CoinID, _> in iteration (ascending) order
RECURSIVE SortedCoinIDs(_)
SortedCoinIDs(S) ==
    IF S = {} THEN <<>>
    ELSE LET m == CHOOSE x \in S : \A y \in S \ {x} : CoinIDLess(x, y)
         IN  <<m>> \o SortedCoinIDs(S \ {m})

\* The keys of a BTreeMap<Denom, _> in iteration (ascending) order
RECURSIVE SortedDenoms(_)
SortedDenoms(S) ==
    IF S = {} THEN <<>>
    ELSE LET m == CHOOSE x \in S : \A y \in S \ {x} : DenomRank(x) < DenomRank(y)
         IN  <<m>> \o SortedDenoms(S \ {m})

EmptyMap == [k \in {} |-> 0]

MapInsert(m, k, v) == [x \in DOMAIN m \cup {k} |-> IF x = k THEN v ELSE m[x]]

MapRemove(m, k) == [x \in DOMAIN m \ {k} |-> m[x]]

\* map.get(k).copied().unwrap_or_default()
MapGet(m, k) == IF k \in DOMAIN m THEN m[k] ELSE 0

\* *map.entry(k).or_default() += v
MapAdd(m, k, v) == MapInsert(m, k, MapGet(m, k) + v)

Range(s) == {s[i] : i \in 1..Len(s)}

---------------------------------------------------------------------------
(* Transactions, their serialisation and signature-independent hash *)

Transaction(k, ins, outs, f, covs, d, sg) ==
    [kind |-> k, inputs |-> ins, outputs |-> outs, fee |-> f,
     covenants |-> covs, data |-> d, sigs |-> sg]

SerBytes(b) == <<Len(b)>> \o b

RECURSIVE SerBytesList(_)
SerBytesList(l) ==
    IF l = <<>> THEN <<>> ELSE SerBytes(Head(l)) \o SerBytesList(Tail(l))

SerCoinID(c) == SerBytes(c.txhash) \o <<c.index>>

RECURSIVE SerCoinIDs(_)
SerCoinIDs(l) ==
    IF l = <<>> THEN <<>> ELSE SerCoinID(Head(l)) \o SerCoinIDs(Tail(l))

SerCoinData(o) ==
    <<AddrCode(o.covhash), DenomCode(o.denom), o.value>> \o SerBytes(o.additional_data)

RECURSIVE SerOutputs(_)
SerOutputs(l) ==
    IF l = <<>> THEN <<>> ELSE SerCoinData(Head(l)) \o SerOutputs(Tail(l))

Serialize(tx) ==
    <<KindCode(tx.kind), Len(tx.inputs)>> \o SerCoinIDs(tx.inputs)
        \o <<Len(tx.outputs)>> \o SerOutputs(tx.outputs)
        \o <<tx.fee>>
        \o <<Len(tx.covenants)>> \o SerBytesList(tx.covenants)
        \o SerBytes(tx.data)
        \o <<Len(tx.sigs)>> \o SerBytesList(tx.sigs)

\* Transaction::hash_nosigs: the hash of the transaction with sigs cleared
HashNoSigs(tx) == Serialize([tx EXCEPT !.sigs = <<>>])

---------------------------------------------------------------------------
(* Wallet::spendable_utxos *)

\* the coins that some pending transaction is trying to spend
PendingInputs ==
    UNION {Range(pending_outgoing[h].inputs) : h \in DOMAIN pending_outgoing}

\* a spendable_utxos that looks only at the first input of each pending transaction
SpendableIDs_FirstInputOnly ==
    {k \in DOMAIN confirmed_utxos :
        ~\E h \in DOMAIN pending_outgoing :
            /\ pending_outgoing[h].inputs # <<>>
            /\ pending_outgoing[h].inputs[1] = k}

\* a spendable_utxos without the filter on pending transactions
SpendableIDs_IgnorePending == DOMAIN confirmed_utxos

SpendableIDs == {k \in DOMAIN confirmed_utxos : k \notin PendingInputs}

\* the iterator's items, in BTreeMap order
spendable_utxos == SortedCoinIDs(SpendableIDs)

---------------------------------------------------------------------------
(* Wallet::add_coins *)

\* a staging loop that keeps the first coin staged under a CoinID
RECURSIVE StageNewCoins_FirstWins(_, _, _)
StageNewCoins_FirstWins(new_coins, h, accum) ==
    IF new_coins = <<>> THEN [ok |-> TRUE, accum |-> accum]
    ELSE LET c == Head(new_coins)
         IN  IF c[2].covhash # address
             THEN [ok |-> FALSE, accum |-> accum]
             ELSE StageNewCoins_FirstWins(Tail(new_coins), h,
                      IF c[1] \in DOMAIN accum THEN accum
                      ELSE MapInsert(accum, c[1], CoinDataHeight(c[2], h)))

\* a staging loop that takes coins of any address
RECURSIVE StageNewCoins_AnyAddress(_, _, _)
StageNewCoins_AnyAddress(new_coins, h, accum) ==
    IF new_coins = <<>> THEN [ok |-> TRUE, accum |-> accum]
    ELSE LET c == Head(new_coins)
         IN  StageNewCoins_AnyAddress(Tail(new_coins), h,
                                      MapInsert(accum, c[1], CoinDataHeight(c[2], h)))

\* the staging loop: Err(WrongAddress) at the first misaddressed coin
RECURSIVE StageNewCoins(_, _, _)
StageNewCoins(new_coins, h, accum) ==
    IF new_coins = <<>> THEN [ok |-> TRUE, accum |-> accum]
    ELSE LET c == Head(new_coins)
         IN  IF c[2].covhash # address
             THEN [ok |-> FALSE, accum |-> accum]
             ELSE StageNewCoins(Tail(new_coins), h,
                                MapInsert(accum, c[1], CoinDataHeight(c[2], h)))

\* a commit loop that leaves pending_outgoing alone
RECURSIVE CommitAccum_KeepsPending(_, _, _)
CommitAccum_KeepsPending(keys, accum, w) ==
    IF keys = <<>> THEN w
    ELSE LET k == Head(keys)
         IN  CommitAccum_KeepsPending(Tail(keys), accum,
                 [pending |-> w.pending,
                  confirmed |-> MapInsert(w.confirmed, k, accum[k])])

\* the commit loop over accum: remove the originating pending entry, insert the coin
RECURSIVE CommitAccum(_, _, _)
CommitAccum(keys, accum, w) ==
    IF keys = <<>> THEN w
    ELSE LET k == Head(keys)
         IN  CommitAccum(Tail(keys), accum,
                 [pending |-> MapRemove(w.pending, k.txhash),
                  confirmed |-> MapInsert(w.confirmed, k, accum[k])])

RECURSIVE RemoveSpent(_, _)
RemoveSpent(keys, confirmed) ==
    IF keys = <<>> THEN confirmed
    ELSE RemoveSpent(Tail(keys), MapRemove(confirmed, Head(keys)))

\* an add_coins without the temporary map: each coin is committed as it is read
RECURSIVE CommitUnstaged(_, _, _)
CommitUnstaged(new_coins, h, w) ==
    IF new_coins = <<>> THEN [ok |-> TRUE, w |-> w]
    ELSE LET c == Head(new_coins)
         IN  IF c[2].covhash # address THEN [ok |-> FALSE, w |-> w]
             ELSE CommitUnstaged(Tail(new_coins), h,
                      [pending |-> MapRemove(w.pending, c[1].txhash),
                       confirmed |-> MapInsert(w.confirmed, c[1], CoinDataHeight(c[2], h))])

add_coins_unstaged(h, new_coins, spent_coins) ==
    IF h # height + 1
    THEN [res |-> "BadHeight", height |-> height,
          confirmed |-> confirmed_utxos, pending |-> pending_outgoing]
    ELSE LET r == CommitUnstaged(new_coins, h, [pending |-> pending_outgoing,
                                                confirmed |-> confirmed_utxos])
         IN  IF ~r.ok
             THEN [res |-> "WrongAddress", height |-> height,
                   confirmed |-> r.w.confirmed, pending |-> r.w.pending]
             ELSE [res |-> "Ok", height |-> h,
                   confirmed |-> RemoveSpent(SortedCoinIDs(spent_coins), r.w.confirmed),
                   pending |-> r.w.pending]

\* an add_coins that takes a block of any height
add_coins_any_height(h, new_coins, spent_coins) ==
    LET staged == StageNewCoins(new_coins, h, EmptyMap)
    IN  IF ~staged.ok
        THEN [res |-> "WrongAddress", height |-> height,
              confirmed |-> confirmed_utxos, pending |-> pending_outgoing]
        ELSE LET w == CommitAccum(SortedCoinIDs(DOMAIN staged.accum), staged.accum,
                          [pending |-> pending_outgoing, confirmed |-> confirmed_utxos])
             IN  [res |-> "Ok", height |-> h,
                  confirmed |-> RemoveSpent(SortedCoinIDs(spent_coins), w.confirmed),
                  pending |-> w.pending]

\* The wallet after add_coins(h, new_coins, spent_coins), with the call's result
add_coins(h, new_coins, spent_coins) ==
    LET same == [res |-> "", height |-> height,
                 confirmed |-> confirmed_utxos, pending |-> pending_outgoing]
    IN  IF h # height + 1 THEN [same EXCEPT !.res = "BadHeight"]
        ELSE LET staged == StageNewCoins(new_coins, h, EmptyMap)
             IN  IF ~staged.ok THEN [same EXCEPT !.res = "WrongAddress"]
                 ELSE LET w == CommitAccum(SortedCoinIDs(DOMAIN staged.accum), staged.accum,
                                   [pending |-> pending_outgoing,
                                    confirmed |-> confirmed_utxos])
                      IN  [res |-> "Ok", height |-> h,
                           confirmed |-> RemoveSpent(SortedCoinIDs(spent_coins), w.confirmed),
                           pending |-> w.pending]

AddCoins(h, new_coins, spent_coins) ==
    LET r == add_coins(h, new_coins, spent_coins)
    IN  /\ height < MaxHeight
        /\ height' = r.height
        /\ confirmed_utxos' = r.confirmed
        /\ pending_outgoing' = r.pending
        /\ last' = [op |-> "add_coins", height |-> h, new_coins |-> new_coins,
                    spent_coins |-> spent_coins, res |-> r.res]
        /\ UNCHANGED address

---------------------------------------------------------------------------
(* Wallet::full_reset *)

\* confirmed_utxos.into_iter().collect(): a later pair replaces an earlier one
RECURSIVE CollectMap(_, _)
CollectMap(pairs, m) ==
    IF pairs = <<>> THEN m
    ELSE CollectMap(Tail(pairs), MapInsert(m, Head(pairs)[1], Head(pairs)[2]))

full_reset(latest_height, coins) ==
    LET collected == CollectMap(coins, EmptyMap)
    IN  IF \E k \in DOMAIN collected : collected[k].coin_data.covhash # address
        THEN [res |-> "WrongAddress", height |-> height,
              confirmed |-> confirmed_utxos, pending |-> pending_outgoing]
        ELSE [res |-> "Ok", height |-> latest_height,
              confirmed |-> collected, pending |-> EmptyMap]

FullReset(latest_height, coins) ==
    LET r == full_reset(latest_height, coins)
    IN  /\ height' = r.height
        /\ confirmed_utxos' = r.confirmed
        /\ pending_outgoing' = r.pending
        /\ last' = [op |-> "full_reset", height |-> latest_height, coins |-> coins,
                    res |-> r.res]
        /\ UNCHANGED address

---------------------------------------------------------------------------
(* Wallet::add_pending *)

\* an add_pending keyed by the hash of the whole transaction, sigs included
add_pending_keyed_with_sigs(tx) == MapInsert(pending_outgoing, Serialize(tx), tx)

add_pending(tx) == MapInsert(pending_outgoing, HashNoSigs(tx), tx)

AddPending(tx) ==
    /\ pending_outgoing' = add_pending(tx)
    /\ last' = [op |-> "add_pending", tx |-> tx]
    /\ UNCHANGED <<address, height, confirmed_utxos>>

---------------------------------------------------------------------------
(* The Signer capability (src/src/signer.rs) *)

\* vec.resize(n, fill)
Resize(s, n, fill) == [j \in 1..n |-> IF j <= Len(s) THEN s[j] ELSE fill]

\* a signature of n bytes
Signature(n) == [j \in 1..n |-> 1]

\* StdEd25519Signer: covenant(), sig_size() = 64, sign() never refuses
StdEd25519Signer ==
    [kind |-> "std", covenant |-> <<5, 5>>, sig_size |-> 64, sig_len |-> 64,
     refuses_at |-> -1]

\* Another implementation of the trait: it fills slot for_input with a signature
\* of sig_len bytes, or refuses to sign for input refuses_at
OtherSigner(size, len, refuses) ==
    [kind |-> "other", covenant |-> <<6>>, sig_size |-> size, sig_len |-> len,
     refuses_at |-> refuses]

\* StdEd25519Signer::sign: resize sigs to max(for_input, len), then assign
\* sigs[for_input]: the index is out of range when for_input >= len
StdSign(signer, txn, for_input) ==
    LET sigs == Resize(txn.sigs, Max(for_input, Len(txn.sigs)), <<>>)
    IN  IF for_input >= Len(sigs) THEN [tag |-> "Panic"]
        ELSE [tag |-> "Ok",
              tx |-> [txn EXCEPT !.sigs = [sigs EXCEPT ![for_input + 1] =
                                               Signature(signer.sig_len)]]]

OtherSign(signer, txn, for_input) ==
    IF for_input = signer.refuses_at THEN [tag |-> "Err"]
    ELSE LET sigs == Resize(txn.sigs, Max(for_input + 1, Len(txn.sigs)), <<>>)
         IN  [tag |-> "Ok",
              tx |-> [txn EXCEPT !.sigs = [sigs EXCEPT ![for_input + 1] =
                                               Signature(signer.sig_len)]]]

\* signer.sign(&tx, i)
Sign(signer, txn, for_input) ==
    IF signer.kind = "std" THEN StdSign(signer, txn, for_input)
    ELSE OtherSign(signer, txn, for_input)

---------------------------------------------------------------------------
(* Wallet::prepare_tx *)

\* little-endian decimal digits: a + b + carry
RECURSIVE AddDigits(_, _, _)
AddDigits(a, b, c) ==
    IF a = <<>> /\ b = <<>> THEN (IF c = 0 THEN <<>> ELSE <<c>>)
    ELSE LET x == (IF a = <<>> THEN 0 ELSE Head(a)) + (IF b = <<>> THEN 0 ELSE Head(b)) + c
         IN  <<x % 10>> \o AddDigits(IF a = <<>> THEN <<>> ELSE Tail(a),
                                     IF b = <<>> THEN <<>> ELSE Tail(b), x \div 10)

\* the digits of 11^p
RECURSIVE Pow11(_)
Pow11(p) ==
    IF p = 0 THEN <<1>> ELSE LET d == Pow11(p - 1) IN AddDigits(<<0>> \o d, d, 0)

RECURSIVE DigitsValue(_)
DigitsValue(d) == IF d = <<>> THEN 0 ELSE Head(d) + 10 * DigitsValue(Tail(d))

\* 1.1f64.powi(power) as u128: the integer part of 11^power / 10^power
FeeLadder == [p \in 0..(MaxPower + 2) |->
                 DigitsValue(SubSeq(Pow11(p), p + 1, Len(Pow11(p))))]

Fee(power) == FeeLadder[power]

\* the fold over args.outputs: NewCustom is minted, not spent
RECURSIVE TallyOutputs(_, _)
TallyOutputs(outputs, map) ==
    IF outputs = <<>> THEN map
    ELSE TallyOutputs(Tail(outputs),
                      IF Head(outputs).denom # NewCustom
                      THEN MapAdd(map, Head(outputs).denom, Head(outputs).value)
                      ELSE map)

inmoney_needed(args, fee) == MapAdd(TallyOutputs(args.outputs, EmptyMap), Mel, fee)

\* the fold over to_spend = args.inputs
RECURSIVE TallyInputs(_, _)
TallyInputs(to_spend, map) ==
    IF to_spend = <<>> THEN map
    ELSE TallyInputs(Tail(to_spend),
                     MapAdd(map, Head(to_spend)[2].coin_data.denom,
                            Head(to_spend)[2].coin_data.value))

\* an inner loop that pushes every spendable coin of denom
RECURSIVE SelectCoins_TakeAll(_, _, _, _)
SelectCoins_TakeAll(coins, denom, needed, st) ==
    IF coins = <<>> THEN st
    ELSE LET k == Head(coins)
             cdh == confirmed_utxos[k]
         IN  IF cdh.coin_data.denom # denom
             THEN SelectCoins_TakeAll(Tail(coins), denom, needed, st)
             ELSE SelectCoins_TakeAll(Tail(coins), denom, needed,
                      [to_spend |-> Append(st.to_spend, <<k, cdh>>),
                       inmoney_actual |-> MapAdd(st.inmoney_actual, denom, cdh.coin_data.value),
                       touched_coin_count |-> st.touched_coin_count + 1])

\* the inner loop: push spendable coins of denom while actual < needed, else break
RECURSIVE SelectCoins(_, _, _, _)
SelectCoins(coins, denom, needed, st) ==
    IF coins = <<>> THEN st
    ELSE LET k == Head(coins)
             cdh == confirmed_utxos[k]
         IN  IF cdh.coin_data.denom # denom THEN SelectCoins(Tail(coins), denom, needed, st)
             ELSE IF MapGet(st.inmoney_actual, denom) < needed
             THEN SelectCoins(Tail(coins), denom, needed,
                      [to_spend |-> Append(st.to_spend, <<k, cdh>>),
                       inmoney_actual |-> MapAdd(st.inmoney_actual, denom, cdh.coin_data.value),
                       touched_coin_count |-> st.touched_coin_count + 1])
             ELSE st

\* the outer loop over inmoney_needed, in Denom order
RECURSIVE SelectInputs(_, _, _)
SelectInputs(denoms, needed, st) ==
    IF denoms = <<>> THEN st
    ELSE SelectInputs(Tail(denoms), needed,
                      SelectCoins(spendable_utxos, Head(denoms), needed[Head(denoms)], st))

\* the fee-asset check of line 159, with the entry(Mel).or_default() it makes
MelCheckFails(inmoney_actual, fee) == MapGet(inmoney_actual, Mel) >= fee

\* a change loop that returns the whole accumulated value as change
RECURSIVE ChangeOutputs_WholeValue(_, _, _, _, _)
ChangeOutputs_WholeValue(denoms, actual, needed, check_balanced, outputs) ==
    IF denoms = <<>> THEN [short |-> "", outputs |-> outputs]
    ELSE LET d == Head(denoms)
             inmoney == actual[d]
             need == MapGet(needed, d)
         IN  IF inmoney >= need
             THEN ChangeOutputs_WholeValue(Tail(denoms), actual, needed, check_balanced,
                      IF inmoney > 0
                      THEN Append(outputs, CoinData(address, d, inmoney))
                      ELSE outputs)
             ELSE IF check_balanced THEN [short |-> d, outputs |-> outputs]
             ELSE ChangeOutputs_WholeValue(Tail(denoms), actual, needed, check_balanced,
                                           outputs)

\* the loop over inmoney_actual, in Denom order: change outputs, or the first
\* short denom with check_balanced
RECURSIVE ChangeOutputs(_, _, _, _, _)
ChangeOutputs(denoms, actual, needed, check_balanced, outputs) ==
    IF denoms = <<>> THEN [short |-> "", outputs |-> outputs]
    ELSE LET d == Head(denoms)
             inmoney == actual[d]
             need == MapGet(needed, d)
         IN  IF inmoney >= need
             THEN ChangeOutputs(Tail(denoms), actual, needed, check_balanced,
                      IF inmoney - need > 0
                      THEN Append(outputs, CoinData(address, d, inmoney - need))
                      ELSE outputs)
             ELSE IF check_balanced THEN [short |-> d, outputs |-> outputs]
             ELSE ChangeOutputs(Tail(denoms), actual, needed, check_balanced, outputs)

\* melvm::covenant_weight_from_bytes
CovenantWeight(cov) == Len(cov)

RECURSIVE SumCovenantWeights(_)
SumCovenantWeights(covs) ==
    IF covs = <<>> THEN 0 ELSE CovenantWeight(Head(covs)) + SumCovenantWeights(Tail(covs))

\* Transaction::weight: the serialised length plus the covenants' weights
Weight(tx) == Len(Serialize(tx)) + SumCovenantWeights(tx.covenants)

\* Transaction::base_fee(fee_multiplier, ballast, cov_to_weight)
BaseFee(tx, fee_multiplier, ballast) == ((Weight(tx) + ballast) * fee_multiplier) \div 65536

\* the transaction assembled at lines 183-195
Assemble(args, signer, to_spend, outputs, fee) ==
    Transaction(args.kind,
                [i \in 1..Len(to_spend) |-> to_spend[i][1]],
                outputs,
                fee,
                [i \in 1..Len(to_spend) |-> signer.covenant],
                args.data,
                [i \in 1..Len(to_spend) |-> [j \in 1..signer.sig_size |-> 0]])

\* an acceptance test that leaves out args.fee_ballast
FeeAccepted_NoBallast(assembled, args, fee_multiplier, fee) ==
    BaseFee(assembled, fee_multiplier, 0) <= fee

\* the acceptance test of lines 196-204
FeeAccepted(assembled, args, fee_multiplier, fee) ==
    BaseFee(assembled, fee_multiplier, args.fee_ballast) <= fee

\* (0..n).try_fold(tx, |tx, i| signer.sign(&tx, i)), from index i
RECURSIVE SignFold(_, _, _, _)
SignFold(signer, tx, i, n) ==
    IF i >= n THEN [tag |-> "Ok", tx |-> tx, signed |-> i]
    ELSE LET r == Sign(signer, tx, i)
         IN  IF r.tag = "Ok" THEN SignFold(signer, r.tx, i + 1, n)
             ELSE IF r.tag = "Err" THEN [tag |-> "SignerRefused", signed |-> i]
             ELSE [tag |-> "Panic", signed |-> i]

\* the body of the fee loop from `power` on
RECURSIVE prepare_tx_from(_, _, _, _, _)
prepare_tx_from(args, signer, fee_multiplier, check_balanced, power) ==
    IF power > MaxPower THEN [tag |-> "OutOfBound", power |-> power]
    ELSE
    LET fee == Fee(power)
        needed == inmoney_needed(args, fee)
        st == SelectInputs(SortedDenoms(DOMAIN needed), needed,
                  [to_spend |-> args.inputs,
                   inmoney_actual |-> TallyInputs(args.inputs, EmptyMap),
                   touched_coin_count |-> 0])
        actual == MapAdd(st.inmoney_actual, Mel, 0)
        change == ChangeOutputs(SortedDenoms(DOMAIN actual), actual, needed,
                                check_balanced, args.outputs)
        assembled == Assemble(args, signer, st.to_spend, change.outputs, fee)
    IN  IF MelCheckFails(st.inmoney_actual, fee)
        THEN [tag |-> "InsufficientFunds", denom |-> Mel, power |-> power]
        ELSE IF change.short # ""
        THEN [tag |-> "InsufficientFunds", denom |-> change.short, power |-> power]
        ELSE IF FeeAccepted(assembled, args, fee_multiplier, fee)
        THEN LET r == SignFold(signer, [assembled EXCEPT !.sigs = <<>>], 0,
                               Len(args.inputs) + st.touched_coin_count)
             IN  IF r.tag = "Ok"
                 THEN [tag |-> "Ok", tx |-> r.tx, power |-> power, signed |-> r.signed]
                 ELSE [tag |-> r.tag, power |-> power, signed |-> r.signed]
        ELSE prepare_tx_from(args, signer, fee_multiplier, check_balanced, power + 1)

prepare_tx(args, signer, fee_multiplier, check_balanced) ==
    prepare_tx_from(args, signer, fee_multiplier, check_balanced, 0)

PrepareTx(args, signer, fee_multiplier, check_balanced) ==
    LET r == prepare_tx(args, signer, fee_multiplier, check_balanced)
    IN  /\ r.tag # "OutOfBound"
        /\ last' = [op |-> "prepare_tx", args |-> args, signer |-> signer,
                    fee_multiplier |-> fee_multiplier,
                    check_balanced |-> check_balanced, res |-> r]
        /\ UNCHANGED wallet

---------------------------------------------------------------------------
(* The calls the environment makes *)

SeqsUpTo2(S) == {<<>>} \cup {<<x>> : x \in S} \cup {<<x, y>> : x \in S, y \in S}

\* two coins of outside transactions
E1 == CoinID(<<1>>, 0)
E2 == CoinID(<<1>>, 1)

\* the first outputs of the pending transactions
PendingOutputIDs == {CoinID(h, 0) : h \in DOMAIN pending_outgoing}

\* the coins a block may report
NewCoins ==
    {<<E1, CoinData(SelfAddr, Tok, 500)>>, <<E1, CoinData(SelfAddr, Mel, 1000)>>,
     <<E2, CoinData(OtherAddr, Tok, 500)>>}
        \cup {<<k, CoinData(SelfAddr, Tok, 500)>> : k \in PendingOutputIDs}

SpentSets == {{}, {E1} \cup PendingOutputIDs}

ResetHeights == {MaxHeight - 1, MaxHeight}

ResetCoins(h) ==
    {<<E1, CoinDataHeight(CoinData(SelfAddr, Tok, 500), h)>>,
     <<E1, CoinDataHeight(CoinData(SelfAddr, Mel, 1000), h)>>,
     <<E1, CoinDataHeight(CoinData(OtherAddr, Tok, 500), h)>>,
     <<E2, CoinDataHeight(CoinData(SelfAddr, Tok, 500), h)>>}

\* the transactions the caller may report as sent: one spending E2 and E1,
\* unsigned or signed, and one spending E1
SentTxs ==
    {Transaction("Normal", <<E2, E1>>, <<CoinData(OtherAddr, Tok, 100)>>, 1,
                 <<<<6>>, <<6>>>>, <<>>, sg) :
        sg \in {<<>>, <<Signature(2), Signature(2)>>}}
        \cup {Transaction("Normal", <<E1>>, <<>>, 1, <<<<6>>>>, <<>>, <<Signature(2)>>)}

PrepareTxArgs(k, ins, outs, covs, d, ballast) ==
    [kind |-> k, inputs |-> ins, outputs |-> outs, covenants |-> covs, data |-> d,
     fee_ballast |-> ballast]

\* an out-of-wallet coin a caller may name as an explicit input
ExternalCoin == <<CoinID(<<2>>, 0), CoinDataHeight(CoinData(OtherAddr, Tok, 500), 1)>>

ExplicitInputs(confirmed) ==
    {<<>>, <<ExternalCoin>>} \cup {<<<<k, confirmed[k]>>>> : k \in DOMAIN confirmed}

RequestedOutputs ==
    {<<>>, <<CoinData(OtherAddr, Mel, 100)>>, <<CoinData(OtherAddr, Tok, 100)>>,
     <<CoinData(OtherAddr, Tok, 600)>>,
     <<CoinData(OtherAddr, Tok, 100), CoinData(OtherAddr, NewCustom, 7)>>}

Signers == {StdEd25519Signer, OtherSigner(2, 2, -1), OtherSigner(2, 3, -1),
            OtherSigner(2, 2, 1)}

FeeMultipliers == {0, 8192}

\* the requests made of the wallet's state machine
Requests ==
    {PrepareTxArgs("Normal", ins, outs, <<>>, <<>>, 0) :
        ins \in {<<>>, <<ExternalCoin>>},
        outs \in {<<>>, <<CoinData(OtherAddr, Tok, 100)>>}}

\* the requests prepare_tx is examined on
AllRequests(confirmed) ==
    {PrepareTxArgs(x[1], ins, outs, x[2], x[3], x[4]) :
        x \in {<<"Normal", <<>>, <<>>, 0>>, <<"Faucet", <<<<8>>>>, <<3>>, 10>>},
        ins \in ExplicitInputs(confirmed), outs \in RequestedOutputs}

---------------------------------------------------------------------------
(* The wallet's state machine *)

Init ==
    /\ address = SelfAddr
    /\ height = MaxHeight - 1
    /\ confirmed_utxos = EmptyMap
    /\ pending_outgoing = EmptyMap
    /\ last = [op |-> "new"]

DoAddCoins ==
    \E h \in {height, height + 1}, new_coins \in SeqsUpTo2(NewCoins),
       spent_coins \in SpentSets :
        AddCoins(h, new_coins, spent_coins)

DoFullReset ==
    \E h \in ResetHeights : \E coins \in SeqsUpTo2(ResetCoins(h)) : FullReset(h, coins)

DoAddPending == \E tx \in SentTxs : AddPending(tx)

DoPrepareTx ==
    \E args \in Requests, check_balanced \in BOOLEAN :
        PrepareTx(args, OtherSigner(2, 2, -1), 0, check_balanced)

Next == DoAddCoins \/ DoFullReset \/ DoAddPending \/ DoPrepareTx

Spec == Init /\ [][Next]_vars

---------------------------------------------------------------------------
(* prepare_tx as a function of the wallet and the request *)

\* wallets at height MaxHeight: any of E1, E2 confirmed, nothing pending or
\* the transaction spending E1 pending
PreparedWallets ==
    {[confirmed |-> c, pending |-> p] :
        c \in UNION {[S -> {CoinDataHeight(CoinData(SelfAddr, d[1], d[2]), MaxHeight) :
                               d \in {<<Tok, 500>>, <<Mel, 1000>>}}] : S \in SUBSET {E1, E2}},
        p \in {EmptyMap} \cup
              {[h \in {HashNoSigs(tx)} |-> tx] : tx \in {t \in SentTxs : Len(t.inputs) = 1}}}

InitPrepare ==
    /\ address = SelfAddr
    /\ height = MaxHeight
    /\ \E w \in PreparedWallets :
        /\ confirmed_utxos = w.confirmed
        /\ pending_outgoing = w.pending
        /\ \E args \in AllRequests(w.confirmed), signer \in Signers,
              fee_multiplier \in FeeMultipliers, check_balanced \in BOOLEAN :
            last = [op |-> "call", args |-> args, signer |-> signer,
                    fee_multiplier |-> fee_multiplier,
                    check_balanced |-> check_balanced]

ReturnPrepareTx ==
    /\ last.op = "call"
    /\ PrepareTx(last.args, last.signer, last.fee_multiplier, last.check_balanced)

SpecPrepare == InitPrepare /\ [][ReturnPrepareTx]_vars

---------------------------------------------------------------------------
(* Properties *)

WalletFields == <<confirmed_utxos, pending_outgoing, height>>

Inputs(tx) == Range(tx.inputs)

NewCoinHashes(new_coins) == {new_coins[i][1].txhash : i \in 1..Len(new_coins)}

PreparedOk == last.op = "prepare_tx" /\ last.res.tag = "Ok"

\* C1: once add_pending(tx) has run, every input of tx stays out of
\* spendable_utxos(), whether or not it is a key of confirmed_utxos, over every
\* step other than a full_reset or a successful add_coins that reports a coin of
\* tx's hash (the entry stays, with the same inputs); add_pending itself leaves
\* confirmed_utxos and height as they were.
C1_PendingInputsNotSpendable ==
    [][/\ last'.op = "add_pending" =>
            /\ \A k \in Inputs(last'.tx) : k \notin SpendableIDs'
            /\ confirmed_utxos' = confirmed_utxos
            /\ height' = height
       /\ \A h \in DOMAIN pending_outgoing :
            (/\ last'.op # "full_reset"
             /\ ~(/\ last'.op = "add_coins"
                  /\ last'.res = "Ok"
                  /\ h \in NewCoinHashes(last'.new_coins)))
            => /\ h \in DOMAIN pending_outgoing'
               /\ pending_outgoing'[h].inputs = pending_outgoing[h].inputs
               /\ \A k \in Inputs(pending_outgoing[h]) : k \notin SpendableIDs'
      ]_vars

\* C1 witness: after a successful add_coins a pending transaction is still
\* there and one of its inputs is a confirmed coin that is not spendable
C1_Witness ==
    /\ last.op = "add_coins"
    /\ last.res = "Ok"
    /\ \E h \in DOMAIN pending_outgoing : \E k \in Inputs(pending_outgoing[h]) :
          k \in DOMAIN confirmed_utxos /\ k \notin SpendableIDs

\* C2: no input that prepare_tx drew from the wallet (an input after the
\* explicit args.inputs) is an input of a pending transaction.
C2_SelectedNotPending ==
    PreparedOk =>
        \A i \in (Len(last.args.inputs) + 1)..Len(last.res.tx.inputs) :
            \A h \in DOMAIN pending_outgoing :
                \A j \in 1..Len(pending_outgoing[h].inputs) :
                    last.res.tx.inputs[i] # pending_outgoing[h].inputs[j]

\* C2 witness: a coin was drawn while a confirmed coin of the same denom was
\* held back by a pending transaction
C2_Witness ==
    /\ PreparedOk
    /\ Len(last.res.tx.inputs) > Len(last.args.inputs)
    /\ \E h \in DOMAIN pending_outgoing : \E k \in Inputs(pending_outgoing[h]) :
          /\ k \in DOMAIN confirmed_utxos
          /\ \E c \in Inputs(last.res.tx) :
                /\ c \in DOMAIN confirmed_utxos
                /\ c # k
                /\ confirmed_utxos[c].coin_data.denom = confirmed_utxos[k].coin_data.denom

\* C3: a transaction returned by prepare_tx never has the same CoinID twice in
\* its inputs, whatever args.inputs is.
C3_NoDuplicateInputs ==
    PreparedOk =>
        \A i, j \in 1..Len(last.res.tx.inputs) :
            i # j => last.res.tx.inputs[i] # last.res.tx.inputs[j]

\* the returned transaction with the placeholder signatures of the assembly
WithPlaceholders(tx, signer) ==
    [tx EXCEPT !.sigs = [i \in 1..Len(tx.inputs) |-> [j \in 1..signer.sig_size |-> 0]]]

\* C4: the base fee of a returned transaction (its weight plus
\* args.fee_ballast, scaled by fee_multiplier) is at most its fee field when the
\* signer's signatures are no longer than sig_size(); and the returned
\* transaction, with the placeholder signatures put back, passes the acceptance
\* test at its fee.
C4_FeeCoversBaseFee ==
    PreparedOk =>
        /\ last.signer.sig_len <= last.signer.sig_size =>
              BaseFee(last.res.tx, last.fee_multiplier, last.args.fee_ballast)
                  <= last.res.tx.fee
        /\ BaseFee(WithPlaceholders(last.res.tx, last.signer), last.fee_multiplier,
                   last.args.fee_ballast) <= last.res.tx.fee

\* C4 witness: a signed transaction with an input and a ballast, whose fee was
\* reached after the first rung of the ladder
C4_Witness ==
    /\ PreparedOk
    /\ last.signer.sig_len <= last.signer.sig_size
    /\ last.res.tx.inputs # <<>>
    /\ Len(last.res.tx.sigs) = Len(last.res.tx.inputs)
    /\ last.args.fee_ballast > 0
    /\ last.res.tx.fee > 1

\* C5: a wallet at height 10 holding one Mel coin worth 1000, nothing pending,
\* asked (with a signer that signs) for one 100-Mel output to another address,
\* returns a transaction with one input, the payment and a change output of
\* 1000 - 100 - fee to the wallet's address, and a fee of at least 1.
C5_MelPaymentSucceeds ==
    (/\ last.op = "prepare_tx"
     /\ height = 10
     /\ pending_outgoing = EmptyMap
     /\ Cardinality(DOMAIN confirmed_utxos) = 1
     /\ \A k \in DOMAIN confirmed_utxos :
           confirmed_utxos[k].coin_data = CoinData(address, Mel, 1000)
     /\ last.args.inputs = <<>>
     /\ last.args.outputs = <<CoinData(OtherAddr, Mel, 100)>>
     /\ last.signer.kind = "other"
     /\ last.signer.refuses_at = -1)
    => /\ last.res.tag = "Ok"
       /\ Len(last.res.tx.inputs) = 1
       /\ last.res.tx.fee >= 1
       /\ last.res.tx.outputs =
             <<CoinData(OtherAddr, Mel, 100),
               CoinData(address, Mel, 1000 - 100 - last.res.tx.fee)>>

\* C6: a wallet whose only confirmed coin is 500 units of a custom token, asked
\* for anything without an explicit Mel input, gets InsufficientFunds(Mel) from
\* prepare_tx, for every fee_multiplier and either check_balanced.
C6_NoMelIsInsufficientFunds ==
    (/\ last.op = "prepare_tx"
     /\ Cardinality(DOMAIN confirmed_utxos) = 1
     /\ \A k \in DOMAIN confirmed_utxos :
           confirmed_utxos[k].coin_data = CoinData(address, Tok, 500)
     /\ \A i \in 1..Len(last.args.inputs) : last.args.inputs[i][2].coin_data.denom # Mel)
    => last.res.tag = "InsufficientFunds" /\ last.res.denom = Mel

HasMisaddressed(new_coins) == \E i \in 1..Len(new_coins) : new_coins[i][2].covhash # address

\* C7: add_coins with a height other than height + 1 returns BadHeight, and at
\* height + 1 with a misaddressed coin anywhere in new_coins returns
\* WrongAddress; both leave confirmed_utxos, pending_outgoing and height as
\* they were.
C7_AddCoinsFailsAtomically ==
    [][last'.op = "add_coins" =>
          /\ last'.height # height + 1 =>
                last'.res = "BadHeight" /\ WalletFields' = WalletFields
          /\ (last'.height = height + 1 /\ HasMisaddressed(last'.new_coins)) =>
                last'.res = "WrongAddress" /\ WalletFields' = WalletFields
      ]_vars

\* C7 witness: WrongAddress for a misaddressed coin that follows a well
\* addressed coin of a pending transaction, which is still pending
C7_Witness ==
    /\ last.op = "add_coins"
    /\ last.res = "WrongAddress"
    /\ Len(last.new_coins) = 2
    /\ last.new_coins[1][2].covhash = address
    /\ last.new_coins[1][1].txhash \in DOMAIN pending_outgoing
    /\ last.new_coins[2][2].covhash # address

\* the last pair of new_coins with CoinID k
LastOf(new_coins, k) ==
    new_coins[CHOOSE i \in 1..Len(new_coins) :
                 /\ new_coins[i][1] = k
                 /\ \A j \in (i + 1)..Len(new_coins) : new_coins[j][1] # k]

NewCoinIDsOf(new_coins) == {new_coins[i][1] : i \in 1..Len(new_coins)}

\* C8: add_coins at height + 1 with well addressed coins succeeds, sets height
\* to the call's height, and leaves confirmed_utxos as the old map with the new
\* coins inserted (tagged with the call's height, the last pair of a CoinID
\* standing) and then the spent coins removed.
C8_AddCoinsNetEffect ==
    [][(/\ last'.op = "add_coins"
        /\ last'.height = height + 1
        /\ ~HasMisaddressed(last'.new_coins)) =>
          /\ last'.res = "Ok"
          /\ height' = last'.height
          /\ DOMAIN confirmed_utxos' =
                (DOMAIN confirmed_utxos \cup NewCoinIDsOf(last'.new_coins))
                    \ last'.spent_coins
          /\ \A k \in DOMAIN confirmed_utxos' :
                confirmed_utxos'[k] =
                    IF k \in NewCoinIDsOf(last'.new_coins)
                    THEN CoinDataHeight(LastOf(last'.new_coins, k)[2], last'.height)
                    ELSE confirmed_utxos[k]
      ]_vars

\* C8 witness: a block that reported one CoinID twice, with different data
C8_Witness ==
    /\ last.op = "add_coins"
    /\ last.res = "Ok"
    /\ Len(last.new_coins) = 2
    /\ last.new_coins[1][1] = last.new_coins[2][1]
    /\ last.new_coins[1][2] # last.new_coins[2][2]
    /\ last.new_coins[1][1] \in DOMAIN confirmed_utxos
    /\ confirmed_utxos[last.new_coins[1][1]].height = height

\* C9: a successful add_coins removes every pending entry whose key is the
\* txhash of a coin in new_coins, also when that coin is in spent_coins, and
\* leaves every other pending entry as it was.
C9_ConfirmationRemovesPending ==
    [][(last'.op = "add_coins" /\ last'.res = "Ok") =>
          /\ \A h \in DOMAIN pending_outgoing :
                IF h \in NewCoinHashes(last'.new_coins)
                THEN h \notin DOMAIN pending_outgoing'
                ELSE /\ h \in DOMAIN pending_outgoing'
                     /\ pending_outgoing'[h] = pending_outgoing[h]
          /\ DOMAIN pending_outgoing' \subseteq DOMAIN pending_outgoing
      ]_vars

\* C9 witness: a block reported and spent an output of a sent transaction,
\* which is no longer pending, while another transaction still is
C9_Witness ==
    /\ last.op = "add_coins"
    /\ last.res = "Ok"
    /\ pending_outgoing # EmptyMap
    /\ \E i \in 1..Len(last.new_coins) :
          /\ last.new_coins[i][1].txhash \in {HashNoSigs(tx) : tx \in SentTxs}
          /\ last.new_coins[i][1].txhash \notin DOMAIN pending_outgoing
          /\ last.new_coins[i][1] \in last.spent_coins

\* C10: full_reset with a misaddressed coin among those supplied returns
\* WrongAddress and leaves the wallet as it was; otherwise it succeeds, for any
\* latest_height, empties pending_outgoing, sets height to latest_height and
\* leaves exactly the supplied coins in confirmed_utxos.
C10_FullReset ==
    [][last'.op = "full_reset" =>
          IF \E i \in 1..Len(last'.coins) : last'.coins[i][2].coin_data.covhash # address
          THEN last'.res = "WrongAddress" /\ WalletFields' = WalletFields
          ELSE /\ last'.res = "Ok"
               /\ pending_outgoing' = EmptyMap
               /\ height' = last'.height
               /\ DOMAIN confirmed_utxos' = {last'.coins[i][1] : i \in 1..Len(last'.coins)}
               /\ \A k \in DOMAIN confirmed_utxos' :
                     \E i \in 1..Len(last'.coins) : last'.coins[i] = <<k, confirmed_utxos'[k]>>
      ]_vars

---------------------------------------------------------------------------
(* Height and addresses *)

\* C11 (as stated): over every add_coins, full_reset and add_pending call,
\* successful or failing, the height after the call is greater than or equal to
\* the height before it.
C11_HeightOnlyIncreases == [][height' >= height]_vars

\* C11 (amended): height never decreases over a call other than full_reset: a
\* successful add_coins raises it by exactly one, a failing add_coins,
\* add_pending and prepare_tx leave it as it was; a successful full_reset sets it
\* to latest_height, higher or lower, and a failing one leaves it.
C11_HeightOutsideFullReset ==
    [][/\ last'.op = "add_coins" =>
            height' = (IF last'.res = "Ok" THEN height + 1 ELSE height)
       /\ last'.op \in {"add_pending", "prepare_tx"} => height' = height
       /\ last'.op = "full_reset" =>
            height' = (IF last'.res = "Ok" THEN last'.height ELSE height)
       /\ last'.op # "full_reset" => height' >= height
      ]_vars

\* C11 witness: a successful add_coins has raised the height to MaxHeight
C11_Witness ==
    /\ last.op = "add_coins"
    /\ last.res = "Ok"
    /\ last.height = MaxHeight
    /\ height = MaxHeight

\* C12: in every state reached by add_coins, full_reset, add_pending and
\* prepare_tx calls (prepare_tx with explicit out-of-wallet inputs too), every
\* entry of confirmed_utxos has coin_data.covhash = address, and address is the
\* address the wallet was created with.
C12_ConfirmedCoinsAreOurs ==
    /\ address = SelfAddr
    /\ \A k \in DOMAIN confirmed_utxos :
          confirmed_utxos[k].coin_data.covhash = address

\* C12 witness: the wallet holds a coin after an add_coins call that reported a
\* coin of the wallet's address followed by a coin of another address
C12_Witness ==
    /\ last.op = "add_coins"
    /\ last.height = height + 1
    /\ Len(last.new_coins) = 2
    /\ last.new_coins[1][2].covhash = address
    /\ last.new_coins[2][2].covhash # address
    /\ confirmed_utxos # EmptyMap

---------------------------------------------------------------------------
(* Funds, change and selection in prepare_tx *)

\* the value of denom d among the explicit inputs of a request
ExplicitValue(args, d) == MapGet(TallyInputs(args.inputs, EmptyMap), d)

RECURSIVE SumValues(_, _)
SumValues(coins, d) ==
    IF coins = <<>> THEN 0
    ELSE (IF confirmed_utxos[Head(coins)].coin_data.denom = d
          THEN confirmed_utxos[Head(coins)].coin_data.value ELSE 0)
         + SumValues(Tail(coins), d)

\* the value of denom d among the spendable coins
SpendableValue(d) == SumValues(spendable_utxos, d)

\* the value of denom d the outputs of a request ask for
RequestedValue(args, d) == MapGet(TallyOutputs(args.outputs, EmptyMap), d)

\* the denoms the outputs of a request ask for, NewCustom left out
RequestedDenoms(args) == DOMAIN TallyOutputs(args.outputs, EmptyMap)

\* denom d is short at the given fee: the explicit inputs and every spendable
\* coin of d together stay below what is needed
Short(args, d, fee) ==
    ExplicitValue(args, d) + SpendableValue(d)
        < RequestedValue(args, d) + (IF d = Mel THEN fee ELSE 0)

\* C13 (as stated): with check_balanced, when a denom the outputs ask for is
\* short at the fee the call ended on, prepare_tx returns InsufficientFunds(d)
\* for a denom d that is short, and never Ok; without check_balanced no
\* InsufficientFunds names a denom other than the fee-asset.
C13_ShortfallIsReported ==
    last.op = "prepare_tx" =>
        /\ (/\ last.check_balanced
            /\ \E d \in RequestedDenoms(last.args) :
                  Short(last.args, d, Fee(last.res.power)))
           => /\ last.res.tag = "InsufficientFunds"
              /\ Short(last.args, last.res.denom, Fee(last.res.power))
        /\ (~last.check_balanced /\ last.res.tag = "InsufficientFunds")
           => last.res.denom = Mel

---------------------------------------------------------------------------
(* StdEd25519Signer::sign as a function of the transaction and the index *)

\* the transactions handed to sign: one or two inputs, and a sigs vector that
\* is empty, shorter than the inputs, or as long, with slots filled or empty
SignedTxs ==
    {Transaction(k, ins, <<>>, f, [i \in 1..Len(ins) |-> StdEd25519Signer.covenant],
                 <<>>, sg) :
        k \in {"Normal", "Faucet"},
        ins \in {<<E1>>, <<E1, E2>>, <<E2, E1>>},
        f \in {1, 2},
        sg \in {<<>>, <<<<>>>>, <<Signature(64)>>, <<<<>>, Signature(64)>>,
                <<Signature(64), Signature(64)>>}}

InitSign ==
    /\ address = SelfAddr
    /\ height = MaxHeight
    /\ confirmed_utxos = EmptyMap
    /\ pending_outgoing = EmptyMap
    /\ \E txn \in SignedTxs : \E for_input \in 0..(Len(txn.inputs) - 1) :
          last = [op |-> "call_sign", txn |-> txn, for_input |-> for_input]

ReturnSign ==
    /\ last.op = "call_sign"
    /\ last' = [op |-> "sign", txn |-> last.txn, for_input |-> last.for_input,
                res |-> Sign(StdEd25519Signer, last.txn, last.for_input)]
    /\ UNCHANGED wallet

SpecSign == InitSign /\ [][ReturnSign]_vars

\* C14 (as stated): for every transaction and every valid input index
\* for_input, with sigs empty or shorter than for_input + 1 too, the single-key
\* signer's sign returns a transaction whose sigs slot for_input is populated,
\* whose other signature slots are those of txn and whose other fields are
\* those of txn.
C14_SignFillsSlot ==
    last.op = "sign" =>
        /\ last.res.tag = "Ok"
        /\ Len(last.res.tx.sigs) > last.for_input
        /\ last.res.tx.sigs[last.for_input + 1] = Signature(StdEd25519Signer.sig_size)
        /\ \A j \in 1..Len(last.txn.sigs) :
              j # last.for_input + 1 => last.res.tx.sigs[j] = last.txn.sigs[j]
        /\ [last.res.tx EXCEPT !.sigs = <<>>] = [last.txn EXCEPT !.sigs = <<>>]

---------------------------------------------------------------------------
(* What prepare_tx carries from the request into the transaction *)

\* C15 (as stated): every covenant of args.covenants is among the covenants of
\* a transaction prepare_tx returns, and the transaction's kind and data are
\* args.kind and args.data.
C15_RequestCarriedIntoTx ==
    PreparedOk =>
        /\ \A c \in Range(last.args.covenants) : c \in Range(last.res.tx.covenants)
        /\ last.res.tx.kind = last.args.kind
        /\ last.res.tx.data = last.args.data

---------------------------------------------------------------------------
(* add_pending *)

\* two transactions that differ at most in their sigs
SameButSigs(t1, t2) == [t1 EXCEPT !.sigs = <<>>] = [t2 EXCEPT !.sigs = <<>>]

\* C16: add_pending(tx) always returns, files tx under its
\* signature-independent hash in place of whatever was there and leaves every
\* other entry as it was; a second add_pending(tx) would change nothing; every
\* key of pending_outgoing is the signature-independent hash of its value, and
\* two transactions that differ only in their sigs never occupy two entries.
C16_AddPendingIdempotent ==
    [][/\ last'.op = "add_pending" =>
            /\ HashNoSigs(last'.tx) \in DOMAIN pending_outgoing'
            /\ pending_outgoing'[HashNoSigs(last'.tx)] = last'.tx
            /\ DOMAIN pending_outgoing' = DOMAIN pending_outgoing \cup {HashNoSigs(last'.tx)}
            /\ \A h \in DOMAIN pending_outgoing \ {HashNoSigs(last'.tx)} :
                  pending_outgoing'[h] = pending_outgoing[h]
            /\ MapInsert(pending_outgoing', HashNoSigs(last'.tx), last'.tx)
                  = pending_outgoing'
            /\ \A h \in DOMAIN pending_outgoing :
                  SameButSigs(pending_outgoing[h], last'.tx) => h = HashNoSigs(last'.tx)
       /\ \A h \in DOMAIN pending_outgoing' : h = HashNoSigs(pending_outgoing'[h])
       /\ \A h1, h2 \in DOMAIN pending_outgoing' :
            SameButSigs(pending_outgoing'[h1], pending_outgoing'[h2]) => h1 = h2
      ]_vars

\* C16 witness: add_pending was given a signed transaction, and pending_outgoing
\* holds it next to another transaction
C16_Witness ==
    /\ last.op = "add_pending"
    /\ last.tx.sigs # <<>>
    /\ Len(last.tx.inputs) = 2
    /\ Cardinality(DOMAIN pending_outgoing) = 2
    /\ pending_outgoing[HashNoSigs(last.tx)] = last.tx

---------------------------------------------------------------------------
(* Conservation of value in a prepared transaction *)

\* the total value of denom d in a sequence of CoinData
RECURSIVE SumDenom(_, _)
SumDenom(cds, d) ==
    IF cds = <<>> THEN 0
    ELSE (IF Head(cds).denom = d THEN Head(cds).value ELSE 0) + SumDenom(Tail(cds), d)

\* the coins that the inputs of the returned transaction spend: the explicit
\* inputs come with their data, the others are confirmed coins
SpentCoinData ==
    [i \in 1..Len(last.res.tx.inputs) |->
        IF i <= Len(last.args.inputs) THEN last.args.inputs[i][2].coin_data
        ELSE confirmed_utxos[last.res.tx.inputs[i]].coin_data]

\* the outputs of the returned transaction after the requested ones
ChangeOf(tx, args) == SubSeq(tx.outputs, Len(args.outputs) + 1, Len(tx.outputs))

\* C17: the outputs of a transaction prepare_tx returns are args.outputs in
\* their order, then at most one change output per denom, each paying the
\* wallet's address a value > 0; and for every denom d other than NewCustom
\* whose input value is at least the requested output value of d (plus the fee
\* for Mel), input value of d = output value of d (plus the fee for Mel).
C17_ValueConserved ==
    PreparedOk =>
        LET tx == last.res.tx
            args == last.args
            change == ChangeOf(tx, args)
        IN  /\ Len(tx.outputs) >= Len(args.outputs)
            /\ SubSeq(tx.outputs, 1, Len(args.outputs)) = args.outputs
            /\ \A i \in 1..Len(change) :
                  /\ change[i].covhash = address
                  /\ change[i].value > 0
                  /\ \A j \in 1..Len(change) : change[j].denom = change[i].denom => j = i
            /\ \A d \in {Mel, Tok} :
                  LET f == IF d = Mel THEN tx.fee ELSE 0
                  IN  SumDenom(SpentCoinData, d) >= SumDenom(args.outputs, d) + f
                      => SumDenom(SpentCoinData, d) = SumDenom(tx.outputs, d) + f

\* C17 witness: a returned transaction pays the requested Tok output and gives
\* the rest of the Tok it spends back to the wallet
C17_Witness ==
    /\ PreparedOk
    /\ last.args.outputs # <<>>
    /\ Len(ChangeOf(last.res.tx, last.args)) = 1
    /\ ChangeOf(last.res.tx, last.args)[1].denom = Tok
    /\ SumDenom(SpentCoinData, Tok) > SumDenom(last.args.outputs, Tok)

---------------------------------------------------------------------------
(* The fee ladder of prepare_tx *)

\* C18 (as stated): the fee ladder is non-decreasing in the power, prepare_tx
\* returns Ok or an error, and once the candidate fee of a rung cannot be
\* covered by the explicit and spendable fee-asset coins the call returns
\* InsufficientFunds(Mel) at that rung instead of going further up the ladder.
C18_LadderStopsWhenFeeUncovered ==
    last.op = "prepare_tx" =>
        /\ \A p \in 0..MaxPower : Fee(p) <= Fee(p + 1)
        /\ last.res.tag \in {"Ok", "InsufficientFunds", "SignerRefused"}
        /\ \A p \in 0..last.res.power :
              Short(last.args, Mel, Fee(p))
                  => /\ last.res.tag = "InsufficientFunds"
                     /\ last.res.denom = Mel
                     /\ last.res.power = p

---------------------------------------------------------------------------
(* Signing in prepare_tx *)

\* C19 (as stated): once a candidate fee is accepted, prepare_tx has sign
\* invoked once per input, for the indices 0, 1, ... in ascending order, each
\* on the transaction the previous one returned: either every index is signed
\* and the returned transaction has as many covenants and signatures as inputs,
\* or the signer refuses an index, no later index is signed and prepare_tx
\* returns SignerRefused without a transaction.
C19_SignsEveryInputInOrder ==
    (last.op = "prepare_tx" /\ last.res.tag # "InsufficientFunds") =>
        \/ /\ last.res.tag = "Ok"
           /\ last.res.signed = Len(last.res.tx.inputs)
           /\ Len(last.res.tx.covenants) = Len(last.res.tx.inputs)
           /\ last.res.tx.sigs =
                 [i \in 1..Len(last.res.tx.inputs) |-> Signature(last.signer.sig_len)]
           /\ last.signer.refuses_at \notin 0..(Len(last.res.tx.inputs) - 1)
        \/ /\ last.res.tag = "SignerRefused"
           /\ last.res.signed = last.signer.refuses_at
           /\ DOMAIN last.res = {"tag", "power", "signed"}

---------------------------------------------------------------------------
(* Input selection in prepare_tx *)

\* the spendable coins of denom d, in ascending CoinID order
SpendableOf(d) ==
    LET IsOfDenom(k) == confirmed_utxos[k].coin_data.denom = d
    IN  SelectSeq(spendable_utxos, IsOfDenom)

\* the inputs of denom d that the returned transaction drew from the wallet
DrawnOf(d) ==
    LET IsOfDenom(k) == confirmed_utxos[k].coin_data.denom = d
    IN  SelectSeq(SubSeq(last.res.tx.inputs, Len(last.args.inputs) + 1,
                         Len(last.res.tx.inputs)), IsOfDenom)

\* what the returned transaction needs of denom d
NeededValue(d) ==
    RequestedValue(last.args, d) + (IF d = Mel THEN last.res.tx.fee ELSE 0)

\* C20: in a transaction prepare_tx returns, the coins drawn from the wallet
\* for a denom are the first k spendable coins of that denom in ascending
\* CoinID order, k being the smallest number for which the explicit inputs'
\* value plus the drawn value reaches the needed amount, or all of them when
\* it cannot be reached; so none is drawn for a denom the explicit inputs
\* cover, and none for a denom that is not needed.
C20_GreedyPrefix ==
    PreparedOk =>
        \A d \in {Mel, Tok} :
            LET coins == SpendableOf(d)
                k == Len(DrawnOf(d))
                Reached(j) ==
                    ExplicitValue(last.args, d) + SumValues(SubSeq(coins, 1, j), d)
                        >= NeededValue(d)
            IN  /\ k <= Len(coins)
                /\ DrawnOf(d) = SubSeq(coins, 1, k)
                /\ Reached(k) \/ k = Len(coins)
                /\ \A j \in 0..(k - 1) : ~Reached(j)

\* C20 witness: the wallet has two spendable Tok coins and the returned
\* transaction drew the first of them only
C20_Witness ==
    /\ PreparedOk
    /\ last.args.inputs = <<>>
    /\ Len(SpendableOf(Tok)) = 2
    /\ last.res.tx.inputs = <<E1>>

====
